---- MODULE Spec2Model ----
(***************************************************************************)
(* vortexrotate: the rotation decision engine (MixStrategy,                *)
(* src/rotate_strategy.go) and the rotation orchestrator (Rotator,         *)
(* src/rotate.go), modelled as a state machine of goroutines: writers      *)
(* calling Rotator.Write, a caller of Rotator.Close, the background        *)
(* goroutine Rotator.asyncWork, and the cron job of MixStrategy.asyncWorker.*)
(*                                                                         *)
(* Spec        the orchestrator with its engine, timer and background task *)
(* EngineSpec  the engine alone, driven by concurrent ShouldRotate callers *)
(* FairSpec    Spec with the fairness the Go scheduler gives goroutines    *)
(***************************************************************************)
EXTENDS Integers, Sequences, FiniteSets, TLC

\* ---------------------------------------------------------------- bounds
MaxSize == 5            \* maxSize given to WithRotate / NewMixStrategy
MaxWrites == 2          \* Write calls started in a run
MaxCalls == 3           \* ShouldRotate calls made on the engine directly
MaxCloses == 2          \* Rotator.Close calls started in a run
MaxTicks == 1           \* cron firings in a run
MaxAdvances == 1        \* clock advances in a run
MaxFaults == 1          \* file-system operations that fail in a run
MaxNameLen == 3         \* length of the filename given to NewRotator
MaxOpts == 2            \* options given to NewRotator
MaxNewCalls == 3        \* NewRotator calls started in a run

\* ------------------------------------------------------------- constants
Millisecond == 1000000                 \* time.Millisecond, in nanoseconds
RotateInterval == 100 * Millisecond    \* a time.Duration: nanoseconds
ThresholdNum == 8                      \* RotateSizeThreshold = 0.8 = 8/10
ThresholdDen == 10
BootTime == 1000000000                 \* UnixMilli() when the engine is built
ShortStep == 150                       \* clock advance, in milliseconds
LongStep == 100000000                  \* clock advance, in milliseconds

Writers == {"w1", "w2"}
Task == "task"
Closer == "closer"
Job == "job"
Job2 == "job2"                         \* a firing that starts before Job's run ends
Jobs == {Job, Job2}
Procs == Writers \cup {Task, Closer} \cup Jobs
WriteSizes == {1, 4}                   \* len(p) of the Write calls
TimeSteps == {ShortStep, LongStep}
NoHandle == 0                          \* r.f == nil
Free == "free"                         \* an unlocked mutex

VARIABLES
  \* Rotator
  f,           \* r.f: the handle of the active file (index into files)
  files,       \* every file opened so far, by handle
  counter,     \* r.counter
  sig,         \* r.sig
  writeLock,   \* r.writeLock: Free or the goroutine holding it
  compress,    \* r.cpr.compress
  \* MixStrategy
  size,        \* s.size
  lastTime,    \* s.lastTime (UnixMilli)
  lock,        \* s.lock: Free or the goroutine holding it
  cronOn,      \* s.c is started and not stopped
  eventsOpen,  \* s.events has not been closed
  \* environment
  now,         \* time.Now().UnixMilli()
  advances,    \* clock advances so far
  ticks,       \* cron firings so far
  faults,      \* failed file-system operations so far
  \* goroutines
  pc,          \* control point of every goroutine
  arg,         \* per writer: len(p) of the call in progress
  call,        \* per writer: number of the call in progress
  dec,         \* per writer: what ShouldRotate answered in the running call
  during,      \* per writer: handles that were r.f during the call in progress
  ret,         \* what the last returned call returned
  retN,        \* the byte count the last returned Write returned
  \* history
  calls,       \* Write / ShouldRotate calls started so far
  closeCalls,  \* Rotator.Close calls started so far
  closeDone,   \* Rotator.Close calls returned so far
  okCalls,     \* the calls that returned success
  sinceReset,  \* sizes ShouldRotate accepted since size was last reset
  delivered,   \* notifications taken from s.events so far
  dropped,     \* a notification has been dropped on timeout
  oracleSum,   \* running sum of an oracle fed the ShouldRotate calls
  lead,        \* trues of the oracle minus trues of ShouldRotate
  \* NewRotator
  once,        \* onceWithError.once: "fresh", "running" or "done"
  onceErr,     \* onceWithError.err
  singleton,   \* the package variable r
  initArgs,    \* the arguments of the NewRotator call that initializes
  npc,         \* control point of every goroutine calling NewRotator
  nres,        \* what NewRotator returned to each of them last
  newCalls,    \* NewRotator calls started so far
  initRuns,    \* executions of the initializer so far
  timers,      \* cron schedulers started by constructors so far
  opened,      \* files opened by constructors and not closed by them
  workers      \* asyncWork goroutines started by constructors so far

rotVars == <<f, files, counter, sig, writeLock, compress>>
stgVars == <<size, lastTime, lock, cronOn, eventsOpen>>
envVars == <<now, advances, ticks, faults>>
locVars == <<arg, call, dec, during>>
histVars == <<calls, closeCalls, closeDone, okCalls, sinceReset, delivered>>
obsVars == <<dropped, oracleSum, lead>>
ctorVars == <<once, onceErr, singleton, initArgs, npc, nres, newCalls, initRuns,
              timers, opened, workers>>
vars == <<rotVars, stgVars, envVars, pc, ret, retN, locVars, histVars, obsVars,
          ctorVars>>

\* ------------------------------------------------------------ file system
\* os.OpenFile on a fresh name: an open, empty file named with sequence seq;
\* sibling says whether <path>.<ext> exists, outOpen and srcOpen count the
\* open descriptors cps holds on the sibling and on the re-opened source
NewFileRec(seq) ==
  [seq |-> seq, open |-> TRUE, data |-> <<>>, closes |-> 0, byClose |-> 0,
   sibling |-> FALSE, outOpen |-> 0, srcOpen |-> 0]

\* a Close that leaves the descriptor open
CloseHandleLeaving(fs, h, fromClose) == fs

\* (*os.File).Close: the descriptor is released; a second call only errors
CloseHandle(fs, h, fromClose) ==
  [fs EXCEPT ![h].open = FALSE,
             ![h].closes = @ + 1,
             ![h].byClose = @ + (IF fromClose THEN 1 ELSE 0)]

SumBytes(d) ==
  LET sum[i \in 0..Len(d)] == IF i = 0 THEN 0 ELSE sum[i - 1] + d[i].n
  IN  sum[Len(d)]

\* info.Size() of (*os.File).Stat
FileSize(fs, h) == SumBytes(fs[h].data)

Handles == DOMAIN files

\* ------------------------------------------------------- sync.Mutex, time
\* Lock() returns only when nobody holds the mutex
LockFreeAlways(m) == TRUE
LockFree(m) == m = Free

\* time.Duration(x): the int64 is taken as a count of nanoseconds
DurationOf(x) == x

Goto(p, label) == pc' = [pc EXCEPT ![p] = label]

\* a call of writer p returns r; its locals die with it
Return(p, r, n) ==
  /\ Goto(p, "idle")
  /\ ret' = r
  /\ retN' = n
  /\ arg' = [arg EXCEPT ![p] = 0]
  /\ call' = [call EXCEPT ![p] = 0]
  /\ during' = [during EXCEPT ![p] = {}]
  /\ dec' = [dec EXCEPT ![p] = FALSE]

\* ------------------------------------------------ MixStrategy.ShouldRotate
\* s.size+writeSize < s.maxSize
FitsOrEqual(sz, w) == sz + w <= MaxSize
Fits(sz, w) == sz + w < MaxSize

\* s.lock.Lock()
SRLock(p) ==
  /\ pc[p] = "sr_lock"
  /\ LockFree(lock)
  /\ lock' = p
  /\ Goto(p, "sr_check")
  /\ UNCHANGED <<ctorVars, obsVars, rotVars, size, lastTime, cronOn, eventsOpen, envVars, ret, retN,
                 locVars, histVars>>

\* the comparison of line 125; dec is TRUE when the call is to return true
SRCheck(p) ==
  /\ pc[p] = "sr_check"
  /\ dec' = [dec EXCEPT ![p] = ~Fits(size, arg[p])]
  /\ Goto(p, "sr_update")
  /\ UNCHANGED <<ctorVars, obsVars, rotVars, stgVars, envVars, ret, retN, arg, call, during,
                 histVars>>

\* a ShouldRotate that answers false without counting the bytes
accumulateNone(sz, w) == sz

\* s.size += writeSize
accumulate(sz, w) == sz + w

\* the branch taken and the deferred Unlock
SRUpdate(p) ==
  /\ pc[p] = "sr_update"
  /\ IF dec[p]
       THEN /\ lastTime' = now
            /\ size' = 0
            /\ sinceReset' = 0
       ELSE /\ size' = accumulate(size, arg[p])
            /\ lastTime' = lastTime
            /\ sinceReset' = sinceReset + arg[p]
  /\ lock' = Free
  /\ UNCHANGED <<rotVars, cronOn, eventsOpen, envVars, calls, closeCalls,
                 closeDone, okCalls, delivered>>

\* ms.testSetLastTime(d): under s.lock, lastTime = now - d
testSetLastTime(p, d) ==
  /\ pc[p] = "idle"
  /\ LockFree(lock)
  /\ lastTime' = now - d
  /\ UNCHANGED <<ctorVars, obsVars, rotVars, size, lock, cronOn, eventsOpen, envVars, pc,
                 ret, retN, locVars, histVars>>

\* a goroutine calls ms.ShouldRotate(n) on the engine directly
E_Call(p, n) ==
  /\ pc[p] = "idle"
  /\ calls < MaxCalls
  /\ calls' = calls + 1
  /\ arg' = [arg EXCEPT ![p] = n]
  /\ call' = [call EXCEPT ![p] = calls + 1]
  /\ Goto(p, "sr_lock")
  /\ UNCHANGED <<ctorVars, obsVars, rotVars, stgVars, envVars, ret, retN, dec, during, closeCalls,
                 closeDone, okCalls, sinceReset, delivered>>

\* the oracle of the test scenario: it keeps a running sum, answers true and
\* resets the sum when sum + size >= maxSize, and adds the size otherwise
OracleSays(sum, w) == sum + w >= MaxSize
OracleNext(sum, w) == IF OracleSays(sum, w) THEN 0 ELSE sum + w

\* ShouldRotate returns to that goroutine; the oracle is fed the same call
E_ShouldRotate(p) ==
  /\ SRUpdate(p)
  /\ Return(p, IF dec[p] THEN "true" ELSE "false", 0)
  /\ oracleSum' = OracleNext(oracleSum, arg[p])
  /\ lead' = lead + (IF OracleSays(oracleSum, arg[p]) THEN 1 ELSE 0)
                  - (IF dec[p] THEN 1 ELSE 0)
  /\ UNCHANGED <<ctorVars, dropped>>

\* ------------------------------------------- MixStrategy.asyncWorker (cron)
\* the schedule fires and cron starts the job
Fire ==
  /\ cronOn
  /\ pc[Job] = "idle"
  /\ ticks < MaxTicks
  /\ ticks' = ticks + 1
  /\ Goto(Job, "t_lock")
  /\ UNCHANGED <<ctorVars, obsVars, rotVars, stgVars, now, advances, faults, ret, retN, locVars,
                 histVars>>

\* s.lock.Lock()
TLock ==
  /\ pc[Job] = "t_lock"
  /\ LockFree(lock)
  /\ lock' = Job
  /\ Goto(Job, "t_eval")
  /\ UNCHANGED <<ctorVars, obsVars, rotVars, size, lastTime, cronOn, eventsOpen, envVars, ret, retN,
                 locVars, histVars>>

\* time.Duration(time.Now().UnixMilli()-s.lastTime) < RotateInterval
InWindow(t, last) == DurationOf(t - last) < RotateInterval

\* float64(s.size) < float64(s.maxSize)*RotateSizeThreshold
BelowThreshold(sz) == sz * ThresholdDen < MaxSize * ThresholdNum

\* a job that skips whenever either condition holds
SkipTickEither(t, last, sz) == InWindow(t, last) \/ BelowThreshold(sz)

\* the job skips the tick
SkipTick(t, last, sz) == InWindow(t, last) /\ BelowThreshold(sz)

\* a job that keeps s.lock while it waits in the select
lockWhileSendingHeld == Job

\* s.lock.Unlock() comes before the select that offers the notification
lockWhileSending == Free

\* the decision under s.lock, the reset and the Unlock
TEval ==
  /\ pc[Job] = "t_eval"
  /\ IF SkipTick(now, lastTime, size)
       THEN /\ UNCHANGED <<size, lastTime, sinceReset>>
            /\ lock' = Free
            /\ Goto(Job, "idle")
       ELSE /\ lastTime' = now
            /\ size' = 0
            /\ sinceReset' = 0
            /\ lock' = lockWhileSending
            /\ Goto(Job, "t_send")
  /\ UNCHANGED <<ctorVars, obsVars, rotVars, cronOn, eventsOpen, envVars, ret, retN, locVars, calls,
                 closeCalls, closeDone, okCalls, delivered>>

\* case <-time.After(time.Second): the notification is dropped
TTimeout ==
  /\ pc[Job] = "t_send"
  /\ Goto(Job, "idle")
  /\ dropped' = TRUE
  /\ UNCHANGED <<ctorVars, rotVars, stgVars, envVars, ret, retN, locVars, histVars,
                 oracleSum, lead>>

\* a consumer of NotifyRotate() other than the Rotator takes the notification
Consume ==
  /\ pc[Job] = "t_send"
  /\ eventsOpen
  /\ delivered' = delivered + 1
  /\ Goto(Job, "idle")
  /\ UNCHANGED <<ctorVars, obsVars, rotVars, stgVars, envVars, ret, retN, locVars, calls, closeCalls,
                 closeDone, okCalls, sinceReset>>

\* case s.events <- struct{}{} when s.events has been closed: the send
\* panics in the job's goroutine
TPanic ==
  /\ pc[Job] = "t_send"
  /\ ~eventsOpen
  /\ Goto(Job, "panic")
  /\ UNCHANGED <<ctorVars, obsVars, rotVars, stgVars, envVars, ret, retN, locVars, histVars>>

\* ------------------------------------------------------- MixStrategy.Close
\* s.c.Stop(): no further firing is scheduled; a running job goes on
S_Stop ==
  /\ pc[Closer] = "idle"
  /\ cronOn' = FALSE
  /\ Goto(Closer, "s_close")
  /\ UNCHANGED <<ctorVars, obsVars, rotVars, size, lastTime, lock, eventsOpen, envVars,
                 ret, retN, locVars, histVars>>

\* close(s.events)
S_CloseEvents ==
  /\ pc[Closer] = "s_close"
  /\ eventsOpen' = FALSE
  /\ Goto(Closer, "s_done")
  /\ UNCHANGED <<ctorVars, obsVars, rotVars, size, lastTime, lock, cronOn, envVars,
                 ret, retN, locVars, histVars>>

\* time passes
Advance(d) ==
  /\ advances < MaxAdvances
  /\ advances' = advances + 1
  /\ now' = now + d
  /\ UNCHANGED <<ctorVars, obsVars, rotVars, stgVars, ticks, faults, pc, ret, retN, locVars,
                 histVars>>

\* ------------------------------------------------------------ Rotator.Write
\* r.sig.Load() == 1
IsClosedNever(x) == FALSE
IsClosed(x) == x = 1

\* the handle r.f.Write(p) appends to
WriteTarget(p) == f

\* the call begins: the closed flag is read, and a closed Rotator answers
\* (0, ErrRotateClosed) at once
W_Call(p, n) ==
  /\ pc[p] = "idle"
  /\ calls < MaxWrites
  /\ calls' = calls + 1
  /\ IF IsClosed(sig)
       THEN /\ ret' = "closed"
            /\ retN' = 0
            /\ UNCHANGED <<pc, arg, call, during>>
       ELSE /\ arg' = [arg EXCEPT ![p] = n]
            /\ call' = [call EXCEPT ![p] = calls + 1]
            /\ during' = [during EXCEPT ![p] = {f}]
            /\ Goto(p, "w_lock")
            /\ UNCHANGED <<ret, retN>>
  /\ UNCHANGED <<ctorVars, obsVars, rotVars, stgVars, envVars, dec, closeCalls, closeDone,
                 okCalls, sinceReset, delivered>>

\* r.writeLock.Lock() and the r.f == nil test
W_Lock(p) ==
  /\ pc[p] = "w_lock"
  /\ LockFree(writeLock)
  /\ IF f = NoHandle
       THEN /\ Return(p, "err", 0)
            /\ UNCHANGED writeLock
       ELSE /\ writeLock' = p
            /\ Goto(p, "sr_lock")
            /\ UNCHANGED <<ret, retN, arg, call, dec, during>>
  /\ UNCHANGED <<ctorVars, obsVars, f, files, counter, sig, compress, stgVars, envVars,
                 histVars>>

\* a Write that goes to r.f.Write whatever ShouldRotate said
afterShouldRotateWrite(d) == "w_write"

\* if r.stg.ShouldRotate(...) { r.rotate() } comes before r.f.Write(p)
afterShouldRotate(d) == IF d THEN "rot_close" ELSE "w_write"

\* r.stg.ShouldRotate(uint64(len(p))) returns inside Write
W_ShouldRotate(p) ==
  /\ SRUpdate(p)
  /\ Goto(p, afterShouldRotate(dec[p]))
  /\ UNCHANGED <<ctorVars, obsVars, ret, retN, arg, call, dec, during>>

\* n, err := r.f.Write(p); if err != nil { return n, err }; return n, nil
WriteResultIgnoringErr(failed) == "ok"
WriteResult(failed) == IF failed THEN "err" ELSE "ok"

\* Write returns (n, r) after r.f.Write; the deferred Unlock runs
WriteReturn(p, r, n) ==
  /\ writeLock' = Free
  /\ Return(p, r, n)
  /\ okCalls' = IF r = "ok"
                  THEN okCalls \cup {[id |-> call[p], n |-> arg[p],
                                      during |-> during[p]]}
                  ELSE okCalls

\* r.f.Write(p) succeeds
W_WriteOk(p) ==
  /\ pc[p] = "w_write"
  /\ files[WriteTarget(p)].open
  /\ files' = [files EXCEPT ![WriteTarget(p)].data =
                 Append(@, [id |-> call[p], n |-> arg[p]])]
  /\ WriteReturn(p, WriteResult(FALSE), arg[p])
  /\ UNCHANGED <<ctorVars, obsVars, f, counter, sig, compress, stgVars, envVars, calls,
                 closeCalls, closeDone, sinceReset, delivered>>

\* r.f.Write(p) on a closed handle: os.ErrClosed, nothing is written
W_WriteClosed(p) ==
  /\ pc[p] = "w_write"
  /\ ~files[WriteTarget(p)].open
  /\ WriteReturn(p, WriteResult(TRUE), 0)
  /\ UNCHANGED <<ctorVars, obsVars, f, files, counter, sig, compress, stgVars, envVars,
                 calls, closeCalls, closeDone, sinceReset, delivered>>

\* r.f.Write(p) fails after k < len(p) bytes
W_WriteFault(p, k) ==
  /\ pc[p] = "w_write"
  /\ files[WriteTarget(p)].open
  /\ faults < MaxFaults
  /\ k < arg[p]
  /\ faults' = faults + 1
  /\ files' = IF k = 0 THEN files
              ELSE [files EXCEPT ![WriteTarget(p)].data =
                      Append(@, [id |-> call[p], n |-> k])]
  /\ WriteReturn(p, WriteResult(TRUE), k)
  /\ UNCHANGED <<ctorVars, obsVars, f, counter, sig, compress, stgVars, now, advances, ticks,
                 calls, closeCalls, closeDone, sinceReset, delivered>>

\* ----------------------------------------------------------- Rotator.rotate
\* a task that returns when a reconciliation fails
afterTaskErrorReturn == "exited"

\* asyncWork logs the error of r.f.Stat() or of rotate() and continues with
\* the next iteration of its loop
afterTaskError == "poll"

\* a Write that goes on to r.f.Write whether rotate failed or not
RotateReturnSwallow(p, ok) ==
  IF p = Task
    THEN /\ writeLock' = Free
         /\ Goto(p, "poll")
         /\ UNCHANGED <<ret, retN, arg, call, dec>>
    ELSE /\ Goto(p, "w_write")
         /\ UNCHANGED <<writeLock, ret, retN, arg, call, dec>>

\* rotate returned: asyncWork unlocks and polls again in both cases; Write
\* goes on to r.f.Write, or unlocks and returns the error
RotateReturn(p, ok) ==
  IF p = Task
    THEN /\ writeLock' = Free
         /\ Goto(p, IF ok THEN "poll" ELSE afterTaskError)
         /\ UNCHANGED <<ret, retN, arg, call, dec>>
    ELSE IF ok
      THEN /\ Goto(p, "w_write")
           /\ UNCHANGED <<writeLock, ret, retN, arg, call, dec>>
      ELSE /\ writeLock' = Free
           /\ Goto(p, "idle")
           /\ ret' = "err"
           /\ retN' = 0
           /\ arg' = [arg EXCEPT ![p] = 0]
           /\ call' = [call EXCEPT ![p] = 0]
           /\ dec' = [dec EXCEPT ![p] = FALSE]

\* _ = r.f.Close()
RotClose(p) ==
  /\ pc[p] = "rot_close"
  /\ files' = CloseHandle(files, f, FALSE)
  /\ Goto(p, IF compress THEN "rot_cps" ELSE "rot_open")
  /\ UNCHANGED <<ctorVars, obsVars, f, counter, sig, writeLock, compress, stgVars, envVars,
                 ret, retN, locVars, histVars>>

\* the steps of cps that can fail: os.OpenFile of the sibling, os.Open of the
\* retired file, cs.Compress()
CpsStages == {"out", "src", "compress"}

\* r.cps(oldPath) on the file of handle h, failing at failAt or not at all:
\* os.OpenFile(wf, O_RDWR|O_CREATE) creates the sibling and returns w,
\* os.Open(oldPath) returns the source, Compress() reads the source into w and
\* closes the source in a deferred call; no path closes w
Cps(fs, h, failAt) ==
  IF failAt = "out" THEN fs
  ELSE [fs EXCEPT ![h].sibling = TRUE,
                  ![h].outOpen = @ + 1,
                  ![h].srcOpen = IF failAt = "src" THEN @ ELSE (@ + 1) - 1]

\* r.cps(r.f.Name()) writes the compressed sibling
RotCpsOk(p) ==
  /\ pc[p] = "rot_cps"
  /\ files' = Cps(files, f, "none")
  /\ Goto(p, "rot_open")
  /\ UNCHANGED <<ctorVars, obsVars, f, counter, sig, writeLock, compress, stgVars, envVars,
                 ret, retN, locVars, histVars>>

\* r.cps fails: rotate returns the error, r.f stays the closed handle
RotCpsFail(p, failAt) ==
  /\ pc[p] = "rot_cps"
  /\ faults < MaxFaults
  /\ faults' = faults + 1
  /\ files' = Cps(files, f, failAt)
  /\ RotateReturn(p, FALSE)
  /\ during' = [during EXCEPT ![p] = {}]
  /\ UNCHANGED <<ctorVars, obsVars, f, counter, sig, compress, stgVars, now, advances,
                 ticks, histVars>>

\* a newFile() that increments r.counter before it builds the name
newFileAddFirst == counter + 1

\* newFile(): the name carries r.counter, which is then incremented
newFile == counter

\* os.OpenFile(r.newFile(), ...) succeeds and r.f = f
RotOpenOk(p) ==
  /\ pc[p] = "rot_open"
  /\ counter' = counter + 1
  /\ files' = Append(files, NewFileRec(newFile))
  /\ f' = Len(files) + 1
  /\ during' = [w \in Writers |->
                  IF pc[w] = "idle" THEN during[w]
                  ELSE during[w] \cup {Len(files) + 1}]
  /\ RotateReturn(p, TRUE)
  /\ UNCHANGED <<ctorVars, obsVars, sig, compress, stgVars, envVars, histVars>>

\* os.OpenFile fails: the name is used up, r.f stays the closed handle
RotOpenFail(p) ==
  /\ pc[p] = "rot_open"
  /\ faults < MaxFaults
  /\ faults' = faults + 1
  /\ counter' = counter + 1
  /\ RotateReturn(p, FALSE)
  /\ during' = [during EXCEPT ![p] = {}]
  /\ UNCHANGED <<ctorVars, obsVars, f, files, sig, compress, stgVars, now, advances, ticks,
                 histVars>>

\* ------------------------------------------------------------ Rotator.Close
C_Call ==
  /\ pc[Closer] = "idle"
  /\ closeCalls < MaxCloses
  /\ closeCalls' = closeCalls + 1
  /\ Goto(Closer, "c_lock")
  /\ UNCHANGED <<ctorVars, obsVars, rotVars, stgVars, envVars, ret, retN, locVars, calls, closeDone,
                 okCalls, sinceReset, delivered>>

\* r.writeLock.Lock()
C_Lock ==
  /\ pc[Closer] = "c_lock"
  /\ LockFree(writeLock)
  /\ writeLock' = Closer
  /\ Goto(Closer, "c_body")
  /\ UNCHANGED <<ctorVars, obsVars, f, files, counter, sig, compress, stgVars, envVars, ret, retN,
                 locVars, histVars>>

\* r.sig.Store(1); if r.f == nil return; _ = r.f.Close(); deferred Unlock
C_Body ==
  /\ pc[Closer] = "c_body"
  /\ sig' = 1
  /\ files' = IF f = NoHandle THEN files ELSE CloseHandle(files, f, TRUE)
  /\ writeLock' = Free
  /\ closeDone' = closeDone + 1
  /\ Goto(Closer, "idle")
  /\ UNCHANGED <<ctorVars, obsVars, f, counter, compress, stgVars, envVars, ret, retN, locVars,
                 calls, closeCalls, okCalls, sinceReset, delivered>>

\* -------------------------------------------------------- Rotator.asyncWork
\* case _, ok := <-notify: a notification is taken from the job that is
\* sending it, or the channel is found closed and the goroutine returns
A_Recv ==
  /\ pc[Task] = "poll"
  /\ IF eventsOpen
       THEN /\ pc[Job] = "t_send"
            /\ pc' = [pc EXCEPT ![Task] = "a_lock", ![Job] = "idle"]
            /\ delivered' = IF delivered < MaxTicks THEN delivered + 1
                                                    ELSE delivered
       ELSE /\ Goto(Task, "exited")
            /\ UNCHANGED delivered
  /\ UNCHANGED <<ctorVars, obsVars, rotVars, stgVars, envVars, ret, retN, locVars, calls, closeCalls,
                 closeDone, okCalls, sinceReset>>

\* r.writeLock.Lock()
A_Lock ==
  /\ pc[Task] = "a_lock"
  /\ LockFree(writeLock)
  /\ writeLock' = Task
  /\ Goto(Task, "a_stat")
  /\ UNCHANGED <<ctorVars, obsVars, f, files, counter, sig, compress, stgVars, envVars, ret, retN,
                 locVars, histVars>>

\* a task that rotates on every notification, whatever the file holds
TooSmallNever(sz) == FALSE

\* float64(info.Size()) < RotateSizeThreshold*float64(r.maxSize)
TooSmall(sz) == sz * ThresholdDen < ThresholdNum * MaxSize

\* r.f.Stat() fails on a nil or closed handle
StatFails == f = NoHandle \/ ~files[f].open

\* r.f.Stat() and the size test: unlock and continue, or go on to rotate
A_Stat ==
  /\ pc[Task] = "a_stat"
  /\ IF StatFails \/ TooSmall(FileSize(files, f))
       THEN /\ writeLock' = Free
            /\ Goto(Task, IF StatFails THEN afterTaskError ELSE "poll")
       ELSE /\ UNCHANGED writeLock
            /\ Goto(Task, "rot_close")
  /\ UNCHANGED <<ctorVars, obsVars, f, files, counter, sig, compress, stgVars, envVars, ret, retN,
                 locVars, histVars>>

\* ------------------------------------------------- newRotator, NewRotator
fileNameSliLength == 2
CompressTypeGzip == 1
minCompressType == CompressTypeGzip
maxCompressType == 3                   \* CompressTypeSnappy
NoLevel == 0 - 100                     \* WithCompress(tp) without a level
GzipLevels == (0 - 2)..9               \* gzip.HuffmanOnly..gzip.BestCompression
DefaultCompression == 0 - 1            \* gzip.DefaultCompression
ErrFilename == "ErrFilename"
ErrTimeType == "ErrTimeType"
ErrCompressType == "ErrCompressType"
ErrCompress == "ErrCompress"
ErrGzipLevel == "gzip: invalid compression level"
ErrIO == "io error"
NoErr == "nil"
Panic == "panic"                       \* a run-time panic instead of a return

Callers == {"n1", "n2"}
NameChars == {"a", "."}
Names == UNION {[1..k -> NameChars] : k \in 0..MaxNameLen}
TimingInputs == {"hour", "minute"}
CompressInputs == {0, 1, 3, 4}
LevelInputs == {NoLevel, 10}

\* WithRotate(maxSize, tp) and WithCompress(tp, level...)
WithRotate(tp) == [kind |-> "rotate", tp |-> tp, ct |-> 0, level |-> NoLevel]
WithCompress(ct, lv) == [kind |-> "compress", tp |-> "", ct |-> ct, level |-> lv]
\* WithPeriod(period) and WithMaxCount(n); neither argument is ever read
WithPeriod == [kind |-> "period", tp |-> "", ct |-> 0, level |-> NoLevel]
WithMaxCount == [kind |-> "maxcount", tp |-> "", ct |-> 0, level |-> NoLevel]
Options ==
  {WithRotate(tp) : tp \in TimingInputs}
    \cup {WithPeriod, WithMaxCount}
    \cup {WithCompress(ct, NoLevel) : ct \in CompressInputs}
    \cup {WithCompress(CompressTypeGzip, lv) : lv \in LevelInputs}
OptLists == UNION {[1..k -> Options] : k \in 0..MaxOpts}
NoArgs == [name |-> <<>>, opts |-> <<>>]
Args == [name : Names, opts : OptLists]

\* a split at the first separator only, as strings.SplitN(filename, ".", 2)
SplitFirst(str) ==
  LET dots == {i \in 1..Len(str) : str[i] = "."}
      at == CHOOSE i \in dots : \A j \in dots : i <= j
  IN  IF dots = {} THEN <<str>>
      ELSE <<SubSeq(str, 1, at - 1), SubSeq(str, at + 1, Len(str))>>

\* strings.Split(filename, "."): the pieces between the separators
Split(str) ==
  LET sp[i \in 0..Len(str)] ==
        IF i = 0 THEN <<<<>>>>
        ELSE LET done == sp[i - 1]
             IN  IF str[i] = "." THEN Append(done, <<>>)
                 ELSE [done EXCEPT ![Len(done)] = Append(@, str[i])]
  IN  sp[Len(str)]

\* TimingType.Valid
Valid(tp) == tp \in {"second", "hour", "day", "week", "month"}

\* the nil *Rotator, and a Rotator under construction
NilInstance ==
  [id |-> 0, filename |-> <<>>, ext |-> <<>>, stg |-> "nil", compress |-> FALSE,
   cs |-> 0]
Building(id, sli) ==
  [inst |-> [id |-> id, filename |-> sli[1], ext |-> sli[2], stg |-> "nil",
             compress |-> FALSE, cs |-> 0],
   err |-> NoErr, started |-> 0, opened |-> 1, working |-> 0]

\* NewMixStrategy as called by WithRotate and by the default
NewMixStrategy(st, tp) ==
  IF ~Valid(tp)
    THEN [st EXCEPT !.err = ErrTimeType]
    ELSE [st EXCEPT !.inst.stg = tp, !.started = @ + 1]

\* the closure WithCompress returns
ApplyCompress(st, o) ==
  LET on == [st EXCEPT !.inst.compress = TRUE]
      level == IF o.level # NoLevel THEN o.level ELSE DefaultCompression
  IN  IF o.ct < minCompressType \/ o.ct > maxCompressType
        THEN [on EXCEPT !.err = ErrCompressType]
      ELSE IF o.ct = CompressTypeGzip /\ level \notin GzipLevels
        THEN [on EXCEPT !.err = ErrGzipLevel]
      ELSE [on EXCEPT !.inst.cs = o.ct]

\* the closure WithPeriod returns: r.cleanup.period = period, with the
\* r.cleanup that nothing ever sets: a nil pointer dereference
ApplyPeriod(st) == [st EXCEPT !.err = Panic]

\* for _, opt := range opts: the first error, or a panic, ends the loop;
\* the closure WithMaxCount returns does nothing
ApplyOpts(st, opts) ==
  LET ap[i \in 0..Len(opts)] ==
        IF i = 0 THEN st
        ELSE LET cur == ap[i - 1]
             IN  IF cur.err # NoErr THEN cur
                 ELSE IF opts[i].kind = "rotate"
                   THEN NewMixStrategy(cur, opts[i].tp)
                 ELSE IF opts[i].kind = "period" THEN ApplyPeriod(cur)
                 ELSE IF opts[i].kind = "maxcount" THEN cur
                 ELSE ApplyCompress(cur, opts[i])
  IN  ap[Len(opts)]

\* return nil, err, or a panic that unwinds newRotator: what was started and
\* opened before stays as it is
Failed(err, st) ==
  [inst |-> NilInstance, err |-> err, started |-> st.started, opened |-> st.opened,
   working |-> 0]
Nothing == [started |-> 0, opened |-> 0]

\* newRotator(dir, filename, opts...): the instance or nil, the error, the
\* cron schedulers it started, the files it left open and whether it started
\* asyncWork; fsOk says whether MkdirAll and OpenFile succeed
newRotator(id, a, fsOk) ==
  LET sli == Split(a.name)
  IN  IF Len(sli) # fileNameSliLength THEN Failed(ErrFilename, Nothing)
      ELSE IF ~fsOk THEN Failed(ErrIO, Nothing)
      ELSE LET opted == ApplyOpts(Building(id, sli), a.opts)
               dflt == IF opted.inst.stg = "nil"
                         THEN NewMixStrategy(opted, "hour") ELSE opted
           IN  IF opted.err # NoErr THEN Failed(opted.err, opted)
               ELSE IF dflt.inst.compress /\ dflt.inst.cs = 0
                 THEN Failed(ErrCompress, dflt)
               ELSE [dflt EXCEPT !.working = 1]

\* sync.Once lets one caller run the function; the others return only after
\* it has finished
OnceDoneAlways(o) == TRUE
OnceDone(o) == o = "done"

NoResult == [inst |-> NilInstance, err |-> "none", other |-> FALSE]

\* everything but the constructor's state stays as it is
CtorFrame == UNCHANGED <<rotVars, stgVars, envVars, pc, ret, retN, locVars, histVars, obsVars>>

\* a goroutine calls NewRotator(dir, initArgs.name, initArgs.opts...) and is
\* the first to enter onceWithError.Do: it becomes the initializer
N_First(c) ==
  /\ npc[c] = "idle"
  /\ newCalls < MaxNewCalls
  /\ once = "fresh"
  /\ newCalls' = newCalls + 1
  /\ once' = "running"
  /\ npc' = [npc EXCEPT ![c] = "init"]
  /\ nres' = [nres EXCEPT ![c] = NoResult]
  /\ UNCHANGED <<onceErr, singleton, initArgs, initRuns, timers, opened,
                 workers>>
  /\ CtorFrame

\* a goroutine calls NewRotator after that; its function is never run, so
\* of its arguments only whether they are the initializer's is recorded
N_Later(c, other) ==
  /\ npc[c] = "idle"
  /\ newCalls < MaxNewCalls
  /\ once # "fresh"
  /\ newCalls' = newCalls + 1
  /\ npc' = [npc EXCEPT ![c] = "wait"]
  /\ nres' = [nres EXCEPT ![c] = [NoResult EXCEPT !.other = other]]
  /\ UNCHANGED <<once, onceErr, singleton, initArgs, initRuns, timers, opened,
                 workers>>
  /\ CtorFrame

\* the initializer: newRotator runs, r is set on success, o.err = f().  When
\* newRotator panics, sync.Once still marks itself done, o.err and r are never
\* assigned, and the panic unwinds the caller, which does not return
N_Init(c, fsOk) ==
  /\ npc[c] = "init"
  /\ LET made == newRotator(initRuns + 1, initArgs, fsOk)
     IN  /\ singleton' = IF made.err = NoErr THEN made.inst ELSE singleton
         /\ onceErr' = IF made.err = Panic THEN onceErr ELSE made.err
         /\ npc' = [npc EXCEPT ![c] = IF made.err = Panic THEN "panicked" ELSE "ret"]
         /\ timers' = timers + made.started
         /\ opened' = opened + made.opened
         /\ workers' = workers + made.working
  /\ initRuns' = initRuns + 1
  /\ once' = "done"
  /\ UNCHANGED <<initArgs, nres, newCalls>>
  /\ CtorFrame

\* once.Do returns to a caller that was not the initializer
N_Wait(c) ==
  /\ npc[c] = "wait"
  /\ OnceDone(once)
  /\ npc' = [npc EXCEPT ![c] = "ret"]
  /\ UNCHANGED <<once, onceErr, singleton, initArgs, nres, newCalls, initRuns, timers, opened,
                 workers>>
  /\ CtorFrame

\* return r, onceWithError.err
N_Return(c) ==
  /\ npc[c] = "ret"
  /\ nres' = [nres EXCEPT ![c] = [inst |-> singleton, err |-> onceErr, other |-> @.other]]
  /\ npc' = [npc EXCEPT ![c] = "idle"]
  /\ UNCHANGED <<once, onceErr, singleton, initArgs, newCalls, initRuns, timers, opened,
                 workers>>
  /\ CtorFrame

\* ---------------------------------------------------------- specifications
\* newRotator has returned: file 0001 is open, the counter is 2, the engine
\* is built with its cron started, asyncWork is running
Started ==
  /\ f = 1
  /\ files = <<NewFileRec(1)>>
  /\ counter = 2
  /\ sig = 0
  /\ writeLock = Free
  /\ compress \in BOOLEAN
  /\ size = 0
  /\ lastTime = 0
  /\ lock = Free
  /\ cronOn = TRUE
  /\ eventsOpen = TRUE
  /\ now = BootTime
  /\ advances = 0
  /\ ticks = 0
  /\ faults = 0
  /\ pc = [p \in Procs |-> IF p = Task THEN "poll" ELSE "idle"]
  /\ ret = "none"
  /\ retN = 0
  /\ arg = [p \in Writers |-> 0]
  /\ call = [p \in Writers |-> 0]
  /\ dec = [p \in Writers |-> FALSE]
  /\ during = [p \in Writers |-> {}]
  /\ calls = 0
  /\ closeCalls = 0
  /\ closeDone = 0
  /\ okCalls = {}
  /\ sinceReset = 0
  /\ delivered = 0
  /\ dropped = FALSE
  /\ oracleSum = 0
  /\ lead = 0
  /\ once = "fresh"
  /\ onceErr = NoErr
  /\ singleton = NilInstance
  /\ npc = [c \in Callers |-> "idle"]
  /\ nres = [c \in Callers |-> NoResult]
  /\ newCalls = 0
  /\ initRuns = 0
  /\ timers = 0
  /\ opened = 0
  /\ workers = 0

Init == Started /\ initArgs = NoArgs

Rotators == Writers \cup {Task}

Next ==
  \/ \E p \in Writers, n \in WriteSizes : W_Call(p, n)
  \/ \E p \in Writers : W_Lock(p)
  \/ \E p \in Writers : SRLock(p)
  \/ \E p \in Writers : SRCheck(p)
  \/ \E p \in Writers : W_ShouldRotate(p)
  \/ \E p \in Writers : W_WriteOk(p)
  \/ \E p \in Writers : W_WriteClosed(p)
  \/ \E p \in Writers, k \in 0..MaxSize : W_WriteFault(p, k)
  \/ \E p \in Rotators : RotClose(p)
  \/ \E p \in Rotators : RotCpsOk(p)
  \/ \E p \in Rotators, failAt \in CpsStages : RotCpsFail(p, failAt)
  \/ \E p \in Rotators : RotOpenOk(p)
  \/ \E p \in Rotators : RotOpenFail(p)
  \/ C_Call
  \/ C_Lock
  \/ C_Body
  \/ A_Recv
  \/ A_Lock
  \/ A_Stat
  \/ Fire
  \/ TLock
  \/ TEval
  \/ TTimeout
  \/ Advance(LongStep)

Spec == Init /\ [][Next]_vars

\* the engine alone: no Rotator is built around it
EngineInit == Init /\ compress = FALSE

EngineNext ==
  \/ \E p \in Writers, n \in WriteSizes : E_Call(p, n)
  \/ \E p \in Writers : SRLock(p)
  \/ \E p \in Writers : SRCheck(p)
  \/ \E p \in Writers : E_ShouldRotate(p)
  \/ \E p \in Writers : testSetLastTime(p, ShortStep)
  \/ Fire
  \/ TLock
  \/ TEval
  \/ TTimeout
  \/ Consume
  \/ TPanic
  \/ S_Stop
  \/ S_CloseEvents
  \/ \E d \in TimeSteps : Advance(d)

EngineSpec == EngineInit /\ [][EngineNext]_vars

\* ------------------------------------------------ overlapping cron firings
\* cron starts every firing of the schedule in a goroutine of its own,
\* whether or not an earlier run of the job has returned
J_Fire(j) ==
  /\ cronOn
  /\ pc[j] = "idle"
  /\ Goto(j, "t_lock")
  /\ UNCHANGED <<ctorVars, obsVars, rotVars, stgVars, envVars, ret, retN, locVars, histVars>>

\* s.lock.Lock()
J_Lock(j) ==
  /\ pc[j] = "t_lock"
  /\ LockFree(lock)
  /\ lock' = j
  /\ Goto(j, "t_eval")
  /\ UNCHANGED <<ctorVars, obsVars, rotVars, size, lastTime, cronOn, eventsOpen, envVars,
                 ret, retN, locVars, histVars>>

\* the decision under s.lock, the reset and the Unlock
J_Eval(j) ==
  /\ pc[j] = "t_eval"
  /\ IF SkipTick(now, lastTime, size)
       THEN /\ UNCHANGED <<size, lastTime, sinceReset>>
            /\ Goto(j, "idle")
       ELSE /\ lastTime' = now
            /\ size' = 0
            /\ sinceReset' = 0
            /\ Goto(j, "t_send")
  /\ lock' = Free
  /\ UNCHANGED <<ctorVars, obsVars, rotVars, cronOn, eventsOpen, envVars, ret, retN,
                 locVars, calls, closeCalls, closeDone, okCalls, delivered>>

\* case <-time.After(time.Second): the notification is dropped
J_Timeout(j) ==
  /\ pc[j] = "t_send"
  /\ Goto(j, "idle")
  /\ dropped' = TRUE
  /\ UNCHANGED <<ctorVars, rotVars, stgVars, envVars, ret, retN, locVars, histVars,
                 oracleSum, lead>>

\* a receiver of NotifyRotate() takes the notification of job j
J_Consume(j) ==
  /\ pc[j] = "t_send"
  /\ eventsOpen
  /\ delivered' = IF delivered < MaxTicks THEN delivered + 1 ELSE delivered
  /\ Goto(j, "idle")
  /\ UNCHANGED <<ctorVars, obsVars, rotVars, stgVars, envVars, ret, retN, locVars, calls,
                 closeCalls, closeDone, okCalls, sinceReset>>

\* the engine with the schedule firing every second: goroutines call
\* ShouldRotate, less than the job's one-second wait passes at a time
OverlapNext ==
  \/ \E p \in Writers, n \in WriteSizes : E_Call(p, n)
  \/ \E p \in Writers : SRLock(p)
  \/ \E p \in Writers : SRCheck(p)
  \/ \E p \in Writers : E_ShouldRotate(p)
  \/ \E j \in Jobs : J_Fire(j)
  \/ \E j \in Jobs : J_Lock(j)
  \/ \E j \in Jobs : J_Eval(j)
  \/ \E j \in Jobs : J_Timeout(j)
  \/ \E j \in Jobs : J_Consume(j)
  \/ Advance(ShortStep)

OverlapSpec == EngineInit /\ [][OverlapNext]_vars

\* the process before any Rotator exists: goroutines call NewRotator
CtorInit == Started /\ compress = FALSE /\ initArgs \in Args

CtorNext ==
  \/ \E c \in Callers : N_First(c)
  \/ \E c \in Callers, other \in BOOLEAN : N_Later(c, other)
  \/ \E c \in Callers, fsOk \in BOOLEAN : N_Init(c, fsOk)
  \/ \E c \in Callers : N_Wait(c)
  \/ \E c \in Callers : N_Return(c)

CtorSpec == CtorInit /\ [][CtorNext]_vars

\* the goroutines get to run: every step of a started call, of the background
\* task and of a started cron job is eventually taken when it stays enabled
WriterStep ==
  \/ \E p \in Writers : W_Lock(p)
  \/ \E p \in Writers : SRLock(p)
  \/ \E p \in Writers : SRCheck(p)
  \/ \E p \in Writers : W_ShouldRotate(p)
  \/ \E p \in Writers : W_WriteOk(p)
  \/ \E p \in Writers : W_WriteClosed(p)
  \/ \E p \in Writers : RotClose(p)
  \/ \E p \in Writers : RotCpsOk(p)
  \/ \E p \in Writers : RotOpenOk(p)

TaskStep ==
  \/ A_Recv
  \/ A_Lock
  \/ A_Stat
  \/ RotClose(Task)
  \/ RotCpsOk(Task)
  \/ RotOpenOk(Task)

CloserStep == C_Lock \/ C_Body

JobStep == TLock \/ TEval \/ TTimeout

FairSpec ==
  /\ Spec
  /\ WF_vars(WriterStep)
  /\ WF_vars(TaskStep)
  /\ WF_vars(CloserStep)
  /\ WF_vars(JobStep)

\* the Rotator with its writers, Close, the task and the cron job, file
\* operations that fail or succeed but always return, and fair scheduling;
\* the clock, which no lock depends on, stands still, and every write is of
\* the larger size, so that the second one rotates
ProgressNext ==
  \/ \E p \in Writers, n \in WriteSizes \ {1} : W_Call(p, n)
  \/ \E p \in Writers : W_Lock(p)
  \/ \E p \in Writers : SRLock(p)
  \/ \E p \in Writers : SRCheck(p)
  \/ \E p \in Writers : W_ShouldRotate(p)
  \/ \E p \in Writers : W_WriteOk(p)
  \/ \E p \in Writers : W_WriteClosed(p)
  \/ \E p \in Writers, k \in 0 .. MaxSize : W_WriteFault(p, k)
  \/ \E p \in Rotators : RotClose(p)
  \/ \E p \in Rotators : RotCpsOk(p)
  \/ \E p \in Rotators, failAt \in CpsStages : RotCpsFail(p, failAt)
  \/ \E p \in Rotators : RotOpenOk(p)
  \/ \E p \in Rotators : RotOpenFail(p)
  \/ C_Call
  \/ C_Lock
  \/ C_Body
  \/ A_Recv
  \/ A_Lock
  \/ A_Stat
  \/ Fire
  \/ TLock
  \/ TEval
  \/ TTimeout

ProgressSpec ==
  /\ Init /\ [][ProgressNext]_vars
  /\ WF_vars(WriterStep)
  /\ WF_vars(TaskStep)
  /\ WF_vars(CloserStep)
  /\ WF_vars(JobStep)

\* the schedule keeps firing for as long as the cron runs
FireOnSchedule ==
  /\ cronOn
  /\ pc[Job] = "idle"
  /\ Goto(Job, "t_lock")
  /\ UNCHANGED <<ctorVars, obsVars, rotVars, stgVars, envVars, ret, retN, locVars, histVars>>

\* d milliseconds pass.  The engine reads the clock only as now - lastTime,
\* so the passage is recorded by moving lastTime back by d, and only while
\* the difference is still inside the window the job tests: the clock values
\* of an endless run then stay in a finite set
Elapse(d) ==
  /\ InWindow(now, lastTime)
  /\ lastTime' = lastTime - d
  /\ UNCHANGED <<ctorVars, obsVars, rotVars, size, lock, cronOn, eventsOpen, envVars, pc,
                 ret, retN, locVars, histVars>>

\* a Rotator with one writer, without compression, never closed and whose
\* file system does not fail, with the cron ticking for ever
LiveWriters == {"w1"}

LiveInit == Init /\ compress = FALSE

LiveNext ==
  \/ \E p \in LiveWriters, n \in WriteSizes : W_Call(p, n)
  \/ \E p \in LiveWriters : W_Lock(p)
  \/ \E p \in LiveWriters : SRLock(p)
  \/ \E p \in LiveWriters : SRCheck(p)
  \/ \E p \in LiveWriters : W_ShouldRotate(p)
  \/ \E p \in LiveWriters : W_WriteOk(p)
  \/ \E p \in LiveWriters \cup {Task} : RotClose(p)
  \/ \E p \in LiveWriters \cup {Task} : RotOpenOk(p)
  \/ A_Recv
  \/ A_Lock
  \/ A_Stat
  \/ FireOnSchedule
  \/ TLock
  \/ TEval
  \/ TTimeout
  \/ Elapse(LongStep)

\* every started goroutine gets to run, the schedule keeps firing, time
\* passes, the task, which polls every 10 ms, is not passed over for ever by
\* a job that keeps offering, and a goroutine waiting for a sync.Mutex is not
\* passed over for ever either (the mutex hands over to a starving waiter)
LiveSpec ==
  /\ LiveInit /\ [][LiveNext]_vars
  /\ WF_vars(WriterStep)
  /\ WF_vars(TaskStep)
  /\ SF_vars(A_Recv)
  /\ WF_vars(JobStep)
  /\ \A p \in LiveWriters : SF_vars(W_Lock(p)) /\ SF_vars(SRLock(p))
  /\ SF_vars(A_Lock)
  /\ SF_vars(TLock)
  /\ WF_vars(FireOnSchedule)
  /\ WF_vars(Elapse(LongStep))

\* a Rotator with one writer whose cron keeps firing, so that the task is
\* notified again after a reconciliation has failed
TaskNext ==
  \/ \E p \in LiveWriters, n \in WriteSizes : W_Call(p, n)
  \/ \E p \in LiveWriters : W_Lock(p)
  \/ \E p \in LiveWriters : SRLock(p)
  \/ \E p \in LiveWriters : SRCheck(p)
  \/ \E p \in LiveWriters : W_ShouldRotate(p)
  \/ \E p \in LiveWriters : W_WriteOk(p)
  \/ \E p \in LiveWriters : W_WriteClosed(p)
  \/ \E p \in LiveWriters \cup {Task} : RotClose(p)
  \/ \E p \in LiveWriters \cup {Task} : RotCpsOk(p)
  \/ \E p \in LiveWriters \cup {Task}, failAt \in CpsStages : RotCpsFail(p, failAt)
  \/ \E p \in LiveWriters \cup {Task} : RotOpenOk(p)
  \/ \E p \in LiveWriters \cup {Task} : RotOpenFail(p)
  \/ C_Call
  \/ C_Lock
  \/ C_Body
  \/ A_Recv
  \/ A_Lock
  \/ A_Stat
  \/ FireOnSchedule
  \/ TLock
  \/ TEval
  \/ TTimeout
  \/ Advance(LongStep)

TaskSpec == Init /\ [][TaskNext]_vars

\* ------------------------------------------------------------------ claims
\* the places in the files that hold a byte run of call id
Places(id) ==
  {pl \in UNION {{<<h, i>> : i \in 1..Len(files[h].data)} : h \in Handles} :
     files[pl[1]].data[pl[2]].id = id}

\* C1: every Write that returned success has its bytes, all of them, exactly
\* once in exactly one file, and that file was r.f at some point of the call
C1_NoWriteLoss ==
  \A c \in okCalls :
    /\ Cardinality(Places(c.id)) = 1
    /\ \A pl \in Places(c.id) :
         /\ files[pl[1]].data[pl[2]].n = c.n
         /\ pl[1] \in c.during

\* two writes succeeded, one of them across a rotation, and a notification
\* of the timer reached the background task
C1_Witness ==
  /\ Cardinality(okCalls) = 2
  /\ \E c \in okCalls : Cardinality(c.during) = 2
  /\ delivered > 0
  /\ Len(files) >= 2

\* C2: bytes are appended only by the writer that holds the write lock, to
\* the handle that is r.f at that moment, which is open and was never closed;
\* and while a goroutine holds the write lock nobody else touches r.f or a file
C2_AppendToActive ==
  [][/\ \A h \in Handles :
          (files'[h].data # files[h].data) =>
            /\ h = f
            /\ f' = f
            /\ files[h].open
            /\ files[h].closes = 0
            /\ writeLock \in Writers
            /\ pc[writeLock] = "w_write"
      /\ ((f' # f \/ files' # files) =>
            /\ writeLock \in Procs
            /\ pc'[writeLock] # pc[writeLock])]_vars

\* a writer appended to the file opened by its rotation while the background
\* task and Close were both waiting for the write lock
C2_Witness ==
  /\ Len(files) >= 2
  /\ ~files[1].open
  /\ files[f].data # <<>>
  /\ f > 1
  /\ pc[Task] = "a_lock"
  /\ pc[Closer] = "c_lock"

\* C3: a ShouldRotate(w) that finds size + w < maxSize adds w, keeps lastTime
\* and returns false; any other sets size to 0 and lastTime to now and returns
\* true; with no timer tick the call returns true exactly when the sizes
\* accepted since the last true, plus w, reach maxSize
C3_ShouldRotateStep ==
  [][\A p \in Writers :
       (pc[p] = "sr_update" /\ pc'[p] # "sr_update") =>
         /\ IF size + arg[p] < MaxSize
              THEN size' = size + arg[p] /\ lastTime' = lastTime
                   /\ ret' = "false"
              ELSE size' = 0 /\ lastTime' = now /\ ret' = "true"
         /\ (ticks = 0 =>
              ((ret' = "true") <=> (sinceReset + arg[p] >= MaxSize)))]_vars

\* a call returned true without any timer tick and the accounting is at 0
C3_Witness ==
  /\ ret = "true"
  /\ ticks = 0
  /\ size = 0
  /\ lastTime = now
  /\ calls = 2

\* C4: size is the sum of the sizes accepted since the last reset, and it
\* stays below maxSize
C4_AtomicAccounting ==
  /\ size = sinceReset
  /\ size < MaxSize

\* two callers are inside ShouldRotate at once, one holding the lock, and
\* their sizes together reach maxSize
C4_Witness ==
  \E p, q \in Writers :
    /\ pc[p] = "sr_update"
    /\ pc[q] = "sr_lock"
    /\ size + arg[p] + arg[q] >= MaxSize
    /\ size + arg[p] < MaxSize

\* C5: no file ever holds more than maxSize bytes
C5_FileWithinMaxSize ==
  \A h \in Handles : FileSize(files, h) <= MaxSize

\* C6: a Write that begins after a Close has returned answers
\* ErrRotateClosed at once and changes no file, handle, counter or engine state
C6_PostCloseRejection ==
  [][(closeDone > 0 /\ calls' # calls) =>
       /\ ret' = "closed"
       /\ pc' = pc
       /\ UNCHANGED <<f, files, counter, size, lastTime, lock, writeLock>>]_vars

\* a Write was rejected after Close returned
C6_Witness ==
  /\ closeDone > 0
  /\ ret = "closed"
  /\ \A h \in Handles : ~files[h].open

\* C7: once r.sig is set no Write returns success and no new file is opened
C7_NoSuccessAfterClosed ==
  [][sig = 1 => (okCalls' = okCalls /\ f' = f)]_vars

\* C8: after Close has returned the background task eventually exits
C8_TaskExitsAfterClose ==
  [](closeDone > 0 => <>(pc[Task] = "exited"))

\* C9: once Close has returned the cron is stopped and s.events is closed
C9_CloseStopsEngine ==
  closeDone > 0 => (~cronOn /\ ~eventsOpen)

\* C10: Rotator.Close calls Close on a handle at most once
C10_HandleClosedOnce ==
  \A h \in Handles : files[h].byClose <= 1

\* C11: with one MixStrategy.Close racing the cron job, no job ever sends on
\* s.events after it has been closed
C11_NoSendOnClosed ==
  pc[Job] # "panic"

\* the positions at which a goroutine is between writeLock.Lock() and its
\* writeLock.Unlock(), and those of the rotate transition
CriticalLabels ==
  {"sr_lock", "sr_check", "sr_update", "rot_close", "rot_cps", "rot_open",
   "w_write", "a_stat", "c_body"}

RotateLabels == {"rot_close", "rot_cps", "rot_open"}

InCritical(p) == pc[p] \in CriticalLabels

\* C12: a goroutine is inside a writer's, the task's or Close's critical
\* section only while it holds writeLock, so at most one such section is in
\* progress, two rotate transitions never overlap, and the active handle,
\* the files and the counter change only in a step of the lock holder
C12_RotationsNeverRace ==
  /\ [](\A p \in Rotators \cup {Closer} : InCritical(p) => writeLock = p)
  /\ [](Cardinality({p \in Rotators \cup {Closer} : InCritical(p)}) <= 1)
  /\ [](Cardinality({p \in Rotators : pc[p] \in RotateLabels}) <= 1)
  /\ [][(f' # f \/ counter' # counter \/ files' # files)
          => (writeLock \in Rotators \cup {Closer}
              /\ pc[writeLock] \in RotateLabels \cup {"w_write", "c_body"})]_vars

\* a timer-triggered rotation is between closing the old file and opening the
\* new one while a writer and Close wait for writeLock
C12_Witness ==
  /\ pc[Task] = "rot_open"
  /\ \E w \in Writers : pc[w] = "w_lock"
  /\ pc[Closer] = "c_lock"

\* the active file's actual size is at least RotateSizeThreshold * maxSize
AtThreshold ==
  FileSize(files, f)
    \in {n \in 0..(MaxWrites * MaxSize) : n * ThresholdDen >= ThresholdNum * MaxSize}

\* C13: on a received notification the task goes on to rotate only if the
\* active file's actual size is at least 0.8 * maxSize; below that it
\* releases writeLock and leaves the active file, its contents and the
\* counter unchanged; a file the task is retiring holds at least 80% of
\* maxSize
C13_Revalidation ==
  /\ [][(pc[Task] = "a_stat" /\ pc'[Task] # "a_stat")
          => /\ (pc'[Task] = "rot_close") => (~StatFails /\ AtThreshold)
             /\ (~StatFails /\ ~AtThreshold)
                  => /\ pc'[Task] = "poll"
                     /\ writeLock = Task /\ writeLock' = Free
                     /\ UNCHANGED <<f, files, counter>>]_vars
  /\ [][(pc[Task] # "rot_close" /\ pc'[Task] = "rot_close")
          => pc[Task] = "a_stat"]_vars
  /\ [](pc[Task] \in RotateLabels => (f # NoHandle /\ AtThreshold))

\* the one notification delivered so far was discarded: the task is polling
\* again and file 0001, still open and the only file, holds some bytes but
\* fewer than 80% of maxSize
C13_Witness ==
  /\ delivered = 1
  /\ pc[Task] = "poll"
  /\ Len(files) = 1 /\ f = 1 /\ files[1].open
  /\ FileSize(files, 1) > 0
  /\ ~AtThreshold

\* the hysteresis window, RotateInterval, in the milliseconds of lastTime
HysteresisWindow == RotateInterval \div Millisecond

\* C14: a tick evaluated less than the hysteresis window after lastTime
\* with size below 80% of maxSize posts no notification and leaves size and
\* lastTime unchanged; with size at or above 80% it resets size to 0, sets
\* lastTime to now and goes on to attempt the notification
C14_Hysteresis ==
  [][(pc[Job] = "t_eval" /\ pc'[Job] # "t_eval"
        /\ now - lastTime < HysteresisWindow)
      => IF size * ThresholdDen < ThresholdNum * MaxSize
           THEN /\ pc'[Job] = "idle"
                /\ UNCHANGED <<size, lastTime, delivered, dropped>>
           ELSE /\ pc'[Job] = "t_send"
                /\ size' = 0
                /\ lastTime' = now]_vars

\* the only tick so far ran right after a ShouldRotate call had returned
\* true and was skipped: nothing was offered, delivered or dropped
C14_Witness ==
  /\ ticks = 1 /\ pc[Job] = "idle"
  /\ delivered = 0 /\ ~dropped
  /\ lastTime > 0 /\ now - lastTime < HysteresisWindow
  /\ size = 0

\* C15: a tick evaluated when at least RotateInterval (100 ms) has elapsed
\* since lastTime is never skipped: whatever size is, it resets size to 0,
\* sets lastTime to now and goes on to attempt the notification
C15_ElapsedTickOffers ==
  [][(pc[Job] = "t_eval" /\ pc'[Job] # "t_eval"
        /\ now - lastTime >= HysteresisWindow)
      => (pc'[Job] = "t_send" /\ size' = 0 /\ lastTime' = now)]_vars

\* C16: a tick that has decided to offer ends its attempt in one of two
\* ways only, the notification handed to a receiver or dropped on the
\* timeout, and is then done (not retried)
C16_OfferTerminates ==
  [][(pc[Job] = "t_send" /\ pc'[Job] # "t_send")
      => /\ pc'[Job] = "idle"
         /\ \/ (delivered' = delivered + 1 /\ dropped' = dropped)
            \/ (delivered' = delivered /\ dropped')]_vars

\* C17: once a notification has been dropped on the timeout, an active file
\* that holds at least 80% of maxSize is eventually rotated (the active file
\* is then a new one, below the threshold), whether or not more is written
C17_DropOnlyDelays ==
  (dropped /\ AtThreshold) ~> ~AtThreshold

\* file 0001 holds at least 80% of maxSize; after its bytes were written a
\* tick offered, reset size and was not received: every offer so far was
\* dropped on the timeout, and the job is idle again
C17_Witness ==
  /\ dropped /\ delivered = 0
  /\ pc[Job] = "idle" /\ pc[Task] = "poll"
  /\ f = 1 /\ AtThreshold
  /\ calls = 1 /\ Cardinality(okCalls) = 1
  /\ size = 0 /\ sinceReset = 0

\* an os.OpenFile of a rotation has failed: a sequence number was used up
\* without a file
OpenFailed == counter > Len(files) + 1

\* C18: once the open of a replacement file has failed, no Write succeeds
\* any more and no new active file is opened
C18_FailedIsSink ==
  [][OpenFailed => (okCalls' = okCalls /\ f' = f)]_vars

\* C19: the construction-time file carries number 1; every derivation of a
\* name takes the counter's value and advances the counter by exactly 1, so
\* a rotation's file carries the next number; the numbers of the files
\* increase strictly, none is used twice, and as long as no open has failed
\* the k-th file carries number k
C19_MonotonicSequence ==
  /\ [](/\ files[1].seq = 1
        /\ \A i, j \in Handles : i < j => files[i].seq < files[j].seq
        /\ \A i \in Handles : files[i].seq < counter
        /\ (~OpenFailed => \A k \in Handles : files[k].seq = k))
  /\ [][counter' # counter => counter' = counter + 1]_vars
  /\ [][files' # files /\ Len(files') # Len(files)
          => /\ Len(files') = Len(files) + 1
             /\ files'[Len(files')].seq = counter
             /\ counter' = counter + 1
             /\ \A h \in Handles : files'[h].seq = files[h].seq]_vars

\* two consecutive rotations, one by a writer and one by the task, produced
\* files 0002 and 0003
C19_Witness ==
  /\ Len(files) = 3 /\ f = 3
  /\ files[2].seq = 2 /\ files[3].seq = 3
  /\ counter = 4
  /\ delivered = 1 /\ pc[Task] = "poll"

\* no tick has offered a rotation so far: every tick was skipped
NoOffer ==
  /\ ~dropped
  /\ delivered = 0
  /\ pc[Job] \notin {"t_send", "panic"}

\* C20 as stated: with the timer running, ShouldRotate has returned true as
\* often as the oracle
C20_OracleEquivalence ==
  lead = 0

\* C20, amended: ShouldRotate has returned true as often as the oracle as
\* long as no tick has offered a rotation, and never more often
C20_OracleEquivalenceUntilOffer ==
  /\ NoOffer => lead = 0
  /\ lead >= 0

\* a tick ran and was skipped, calls returned, the last one with true, and
\* the counts agree
C20_Witness ==
  /\ NoOffer
  /\ ticks = 1 /\ pc[Job] = "idle"
  /\ \A p \in Writers : pc[p] = "idle"
  /\ calls >= 2 /\ ret = "true"
  /\ lead = 0

\* the separators in the filename the initializing call was given
Separators == {i \in 1..Len(initArgs.name) : initArgs.name[i] = "."}

\* the results NewRotator has returned and callers still hold
Returned == {nres[c] : c \in {d \in Callers : nres[d].err # "none"}}

\* C21: construction succeeds only if the filename has exactly one '.'; with
\* none or with two or more it fails with the filename error and no instance,
\* and with exactly one the filename error does not occur
C21_FilenameValidated ==
  once = "done" =>
    /\ (Cardinality(Separators) # 1)
         => (onceErr = ErrFilename /\ singleton = NilInstance)
    /\ (Cardinality(Separators) = 1) => onceErr # ErrFilename
    /\ (singleton # NilInstance)
         => /\ Cardinality(Separators) = 1
            /\ onceErr = NoErr
            /\ singleton.filename \o <<".">> \o singleton.ext = initArgs.name
    /\ \A res \in Returned : res.err = ErrFilename => res.inst = NilInstance

\* a name with two separators was refused, and the caller got the filename
\* error and no instance
C21_Witness ==
  /\ once = "done"
  /\ Cardinality(Separators) = 2
  /\ \E res \in Returned : res.err = ErrFilename /\ res.inst = NilInstance

\* the options of the initializing call that name a timing mode outside
\* {second, hour, day, week, month}, a compression type outside {gzip, zstd,
\* snappy}, and a timing mode inside the set
BadTimings ==
  {i \in 1..Len(initArgs.opts) :
     /\ initArgs.opts[i].kind = "rotate"
     /\ initArgs.opts[i].tp \notin {"second", "hour", "day", "week", "month"}}
BadCompressTypes ==
  {i \in 1..Len(initArgs.opts) :
     /\ initArgs.opts[i].kind = "compress"
     /\ initArgs.opts[i].ct \notin {1, 2, 3}}
GoodTimings ==
  {i \in 1..Len(initArgs.opts) : initArgs.opts[i].kind = "rotate"} \ BadTimings

\* C22: construction with an invalid timing mode or an invalid compression
\* type among its options returns an error and no instance; the timing-type
\* and compression-type errors arise only from such an option; and an engine
\* constructor call with an invalid timing mode starts no timer, so the
\* timers running are at most those of the valid timing options
C22_InvalidConfigFailsFast ==
  once = "done" =>
    /\ (BadTimings \cup BadCompressTypes # {})
         => /\ onceErr # NoErr
            /\ singleton = NilInstance
            /\ \A res \in Returned : res.err # NoErr /\ res.inst = NilInstance
    /\ (onceErr = ErrTimeType) => BadTimings # {}
    /\ (onceErr = ErrCompressType) => BadCompressTypes # {}
    /\ (onceErr # NoErr) => timers <= Cardinality(GoodTimings)

\* C23: however many NewRotator calls are made, concurrently or not and with
\* whatever arguments, the initializer runs at most once, every call returns
\* the instance and the error of the one execution, and once that execution
\* has finished neither the instance nor the error Err reports changes
C23_SingleInstance ==
  /\ [](/\ initRuns <= 1
        /\ \A res \in Returned :
             once = "done" /\ res.inst = singleton /\ res.err = onceErr)
  /\ [][once = "done" => UNCHANGED <<once, singleton, onceErr, initRuns>>]_vars

\* three calls were made, the initializer built an instance, and a caller
\* that passed other arguments got that same instance without error
C23_Witness ==
  /\ newCalls = MaxNewCalls
  /\ initRuns = 1
  /\ singleton # NilInstance
  /\ \A c \in Callers : nres[c].inst = singleton /\ nres[c].err = NoErr
  /\ \E c \in Callers : nres[c].other

\* C24: a Write for which ShouldRotate said true reaches r.f.Write only after
\* its rotation has completed: it still holds the write lock and the active
\* file is the newly opened, still empty one; and its write then puts its
\* bytes first into that file and changes no other file
C24_RotateBeforeWrite ==
  /\ [](\A p \in Writers :
          (pc[p] = "w_write" /\ dec[p])
            => /\ writeLock = p
               /\ files[f].open
               /\ files[f].data = <<>>
               /\ \A h \in Handles \ {f} : ~files[h].open)
  /\ [][\A p \in Writers :
          (pc[p] = "w_write" /\ dec[p] /\ pc'[p] = "idle")
            => /\ f' = f
               /\ \A h \in Handles \ {f} : files'[h] = files[h]
               /\ (ret' = "ok")
                    => files'[f].data = <<[id |-> call[p], n |-> arg[p]]>>]_vars

\* a Write began on file 1, which already held bytes, rotated inline and
\* returned success: its record is the only one of file 2 and is in no other
C24_Witness ==
  /\ ticks = 0
  /\ faults = 0
  /\ Len(files) = 2
  /\ files[1].data # <<>>
  /\ \E c \in okCalls :
       /\ c.during = {1, 2}
       /\ files[2].data = <<[id |-> c.id, n |-> c.n]>>
       /\ Places(c.id) = {<<2, 1>>}

\* C25: every step that ends a rotate transition leaves the Rotator either
\* Writing, with a freshly opened and empty active file, or Failed, because
\* the open of the new file was attempted and failed
C25_RotateEndsWritingOrFailed ==
  [][\A p \in Rotators :
       (pc[p] \in RotateLabels /\ pc'[p] \notin RotateLabels)
         => \/ /\ f' # f
               /\ files'[f'].open
               /\ files'[f'].data = <<>>
            \/ /\ f' = f
               /\ files' = files
               /\ counter' = counter + 1]_vars

\* C26: Close sets the closed flag before it acquires the write lock: the
\* flag is set whenever Close holds the lock, and a Write that begins after
\* Close has been called, even while Close still waits for the lock, answers
\* ErrRotateClosed at once
C26_FlagBeforeLock ==
  /\ [](pc[Closer] = "c_body" => sig = 1)
  /\ [][(closeCalls > 0 /\ calls' # calls) => (ret' = "closed" /\ pc' = pc)]_vars

\* C27: when the compression or the open of a Write's inline rotation
\* fails, that step ends the Write: it returns the error and 0 bytes,
\* releases the write lock, and the call's bytes are in no file, neither
\* before nor after the step
C27_FailedRotationSurfaces ==
  [][\A p \in Writers :
       (pc[p] \in {"rot_cps", "rot_open"} /\ faults' # faults)
         => /\ pc'[p] = "idle"
            /\ ret' = "err"
            /\ retN' = 0
            /\ writeLock' = Free
            /\ okCalls' = okCalls
            /\ \A h \in Handles : files'[h].data = files[h].data
            /\ Handles = DOMAIN files'
            /\ Places(call[p]) = {}]_vars

\* the second Write rotated inline, the rotation failed and the call
\* returned (0, err): file 1 is closed and holds the first Write only
C27_Witness ==
  /\ ticks = 0
  /\ closeCalls = 0
  /\ faults = 1
  /\ calls = 2
  /\ \A p \in Writers : pc[p] = "idle"
  /\ ret = "err"
  /\ retN = 0
  /\ f = 1
  /\ Len(files) = 1
  /\ ~files[1].open
  /\ Len(files[1].data) = 1
  /\ Cardinality(okCalls) = 1

\* C28: a reconciliation of the task in which r.f.Stat() or rotate() fails
\* ends with the write lock released and the task polling again; a polling
\* task takes the notification a job is offering; and the task has exited
\* only if the notification channel was closed
C28_TaskSurvivesErrors ==
  /\ [](pc[Task] = "exited" => ~eventsOpen)
  /\ []((pc[Task] = "poll" /\ pc[Job] = "t_send") => ENABLED A_Recv)
  /\ [][(/\ pc'[Task] # pc[Task]
         /\ \/ pc[Task] = "a_stat" /\ StatFails
            \/ pc[Task] \in {"rot_cps", "rot_open"} /\ faults' # faults)
          => (pc'[Task] = "poll" /\ writeLock' = Free)]_vars

\* the one Write succeeded and nobody called Close, so the failure that left
\* the active file closed was the task's rotate(); the task has since taken
\* another notification and holds the write lock to reconcile it
C28_Witness ==
  /\ closeCalls = 0
  /\ faults = 1
  /\ calls = 1
  /\ Cardinality(okCalls) = 1
  /\ \A p \in Writers : pc[p] = "idle"
  /\ ~files[f].open
  /\ pc[Task] = "a_stat"
  /\ writeLock = Task

\* C29: a tick never holds the engine lock while it waits to deliver its
\* notification, so a writer inside ShouldRotate can take every step of it
\* while a notification is pending, also when the task is waiting for the
\* write lock that this writer holds
C29_TimerNeverBlocksWriters ==
  /\ pc[Job] = "t_send" => lock # Job
  /\ \A p \in Writers :
       pc[Job] = "t_send"
         => /\ pc[p] = "sr_lock" => ENABLED SRLock(p)
            /\ pc[p] = "sr_check" => ENABLED SRCheck(p)
            /\ pc[p] = "sr_update" => ENABLED W_ShouldRotate(p)

\* a writer holds the write lock and is about to enter ShouldRotate, the
\* task waits for the write lock with an earlier notification, and the next
\* tick is waiting to deliver its own
C29_Witness ==
  /\ pc[Job] = "t_send"
  /\ pc[Task] = "a_lock"
  /\ \E p \in Writers : pc[p] = "sr_lock" /\ writeLock = p
  /\ lock = Free

\* C30: there is never more than one tick waiting to send on the
\* notification channel, and a step takes at most one waiting tick's
\* notification off the channel
C30_OneOutstanding ==
  /\ [](Cardinality({j \in Jobs : pc[j] = "t_send"}) <= 1)
  /\ [][Cardinality({j \in Jobs : pc[j] = "t_send" /\ pc'[j] # "t_send"}) <= 1]_vars

\* C31: compression starts only after the retired file has been closed, by
\* the goroutine that holds the write lock; a file that is closed or has a
\* compressed sibling is never reopened, appended to or removed, and keeps
\* its sibling; and a rotation with compression that succeeds leaves the
\* retired file, unchanged, together with its sibling
C31_StableSource ==
  /\ [](\A p \in Rotators :
          pc[p] = "rot_cps" => (~files[f].open /\ writeLock = p))
  /\ [](\A h \in Handles : files[h].sibling => ~files[h].open)
  /\ [][\A h \in Handles :
          (~files[h].open \/ files[h].sibling)
            => /\ h \in DOMAIN files'
               /\ ~files'[h].open
               /\ files'[h].data = files[h].data
               /\ files[h].sibling => files'[h].sibling]_vars
  /\ [][(compress /\ f' # f)
          => /\ f \in DOMAIN files'
             /\ files'[f].sibling
             /\ files'[f].data = files[f].data]_vars

\* a rotation with compression succeeded: file 1 is closed, still holds its
\* bytes and has its sibling, and a later Write went to file 2
C31_Witness ==
  /\ compress
  /\ faults = 0
  /\ Len(files) = 2
  /\ ~files[1].open
  /\ files[1].sibling
  /\ files[1].data # <<>>
  /\ files[2].data # <<>>

\* C32: the steps of a Write for which ShouldRotate answers false leave the
\* active handle, the counter and lastTime as they are; the comparison
\* changes nothing, the update adds len(p) to size and touches no file, and
\* r.f.Write changes only the content of the active file, which on success
\* is the old content followed by the call's bytes
C32_NonRotatingWriteFrame ==
  [][\A p \in Writers :
       (pc'[p] # pc[p])
         => /\ (pc[p] = "sr_check" /\ ~dec'[p])
                 => UNCHANGED <<f, files, counter, size, lastTime>>
            /\ (pc[p] = "sr_update" /\ ~dec[p])
                 => /\ UNCHANGED <<f, files, counter, lastTime>>
                    /\ size' = size + arg[p]
                    /\ pc'[p] = "w_write"
            /\ (pc[p] = "w_write" /\ ~dec[p])
                 => /\ UNCHANGED <<f, counter, size, lastTime>>
                    /\ DOMAIN files' = Handles
                    /\ \A h \in Handles \ {f} : files'[h] = files[h]
                    /\ files'[f] = [files[f] EXCEPT !.data = files'[f].data]
                    /\ (ret' = "ok")
                         => /\ retN' = arg[p]
                            /\ files'[f].data =
                                 Append(files[f].data,
                                        [id |-> call[p], n |-> arg[p]])]_vars

\* a Write of 4 bytes that did not rotate has returned: the first file is
\* still the active one, the counter is where construction left it, lastTime
\* was never set, and size and the file both hold the 4 bytes
C32_Witness ==
  /\ calls = 1
  /\ ticks = 0
  /\ ret = "ok"
  /\ retN = 4
  /\ \A p \in Writers : pc[p] = "idle"
  /\ f = 1
  /\ counter = 2
  /\ lastTime = 0
  /\ size = 4
  /\ FileSize(files, 1) = 4

\* the labels at which a goroutine holds the write lock, and the engine lock
HoldsWriteLock(p) ==
  pc[p] \in {"sr_lock", "sr_check", "sr_update", "w_write", "a_stat", "c_body"}
             \cup RotateLabels
HoldsEngineLock(p) == pc[p] \in {"sr_check", "sr_update", "t_eval"}

\* C33: every Write and every Close that has begun returns; a goroutine
\* holds the write lock exactly while it is between its Lock and its return
\* or Unlock, and the engine lock exactly while it is inside ShouldRotate or
\* the tick's decision, so that no holder of the engine lock ever waits for
\* the write lock
C33_Progress ==
  /\ [](\A p \in Procs : (writeLock = p) <=> HoldsWriteLock(p))
  /\ [](\A p \in Procs : (lock = p) <=> HoldsEngineLock(p))
  /\ \A p \in Writers : (pc[p] # "idle") ~> (pc[p] = "idle")
  /\ (pc[Closer] # "idle") ~> (pc[Closer] = "idle")

\* a writer and Close both wait for the write lock while the task holds it
\* inside the rotation a delivered tick asked for
C33_Witness ==
  /\ \E p \in Writers : pc[p] = "w_lock"
  /\ pc[Closer] = "c_lock"
  /\ writeLock = Task
  /\ pc[Task] \in RotateLabels

\* C34: whenever the write lock is free, the only handle held open is the
\* active file: no retired file is still open, and no compressed output or
\* re-opened source of an earlier rotation is still open
C34_NoHandleLeak ==
  writeLock = Free =>
    \A h \in Handles :
      /\ files[h].open => h = f
      /\ files[h].outOpen = 0
      /\ files[h].srcOpen = 0

\* C35: once newRotator has returned an error, it has left no cron scheduler
\* started, no asyncWork goroutine running and no file it opened still open
C35_FailedConstructionClean ==
  (once = "done" /\ onceErr # NoErr) =>
    /\ timers = 0
    /\ workers = 0
    /\ opened = 0
====
